---- MODULE Spec2Model ----
(***************************************************************************)
(* A model of mygit (src/main.go): the content-addressed object store     *)
(* under .git/objects and the commands that read and write it.            *)
(*                                                                         *)
(* Bytes are naturals 0..255 and byte strings are sequences of them, so   *)
(* the canonical encoding "<kind> <len>" NUL payload, the decimal and hex *)
(* conversions and the zlib framing are computed, not assumed.            *)
(***************************************************************************)
EXTENDS Integers, Sequences, FiniteSets, TLC

VARIABLES
    wt,        \* the working directory: path -> node
    gitdir,    \* TRUE when the directory .git exists
    head,      \* contents of .git/HEAD, or Absent
    ref,       \* contents of .git/refs/heads/master, or Absent
    objects,   \* .git/objects: <<dir, file>> -> bytes of the object file
    res,       \* what the last command did: exit status, stdout, arguments
    committed, \* hex ids of the Commit objects stored by the commit command
    wpc,       \* per concurrent writer: where it is inside hash-object
    wbuf,      \* per concurrent writer: the canonical encoding it stores
    wpos       \* per concurrent writer: bytes of the object file it has written

vars == <<wt, gitdir, head, ref, objects, res, committed, wpc, wbuf, wpos>>

-----------------------------------------------------------------------------
(* Bounds of the model. *)

MaxCommits == 2
FlushSize == 4

-----------------------------------------------------------------------------
(* Byte strings of the source. *)

NULL_SEP == <<0>>
SPACE == <<32>>
NEWLINE == <<10>>
StrBlob == <<98, 108, 111, 98>>
StrTree == <<116, 114, 101, 101>>
StrCommit == <<99, 111, 109, 109, 105, 116>>
StrParent == <<112, 97, 114, 101, 110, 116>>
StrAuthor == <<97, 117, 116, 104, 111, 114>>
StrCommitter == <<99, 111, 109, 109, 105, 116, 116, 101, 114>>
author == <<70, 108, 111, 114, 105, 97, 110, 32, 76, 97, 112, 111, 114, 116, 101>>
authorMail == <<60, 102, 108, 111, 114, 105, 97, 110, 108, 64, 102, 108, 111, 114,
                105, 97, 110, 108, 46, 100, 101, 118, 62>>
timezoneOffset == <<43, 48, 49, 48, 48>>
headFileContents == <<114, 101, 102, 58, 32, 114, 101, 102, 115, 47, 104, 101, 97,
                      100, 115, 47, 109, 97, 115, 116, 101, 114, 10>>
DotGit == <<46, 103, 105, 116>>
RefHeadsMaster == <<114, 101, 102, 115, 47, 104, 101, 97, 100, 115, 47, 109, 97,
                    115, 116, 101, 114>>
HexDigits == <<48, 49, 50, 51, 52, 53, 54, 55, 56, 57, 97, 98, 99, 100, 101, 102>>

Absent == "absent"

-----------------------------------------------------------------------------
(* Conversions. *)

Min(a, b) == IF a < b THEN a ELSE b

\* s[from:] of Go, 0-based
Drop(s, from) == SubSeq(s, from + 1, Len(s))

\* strconv.FormatInt(n, 10) and fmt.Sprint(n), n >= 0
RECURSIVE Itoa(_)
Itoa(n) == IF n < 10 THEN <<48 + n>> ELSE Itoa(n \div 10) \o <<48 + (n % 10)>>

\* hex.EncodeToString
RECURSIVE HexEncode(_)
HexEncode(b) ==
    IF b = <<>> THEN <<>>
    ELSE <<HexDigits[(b[1] \div 16) + 1], HexDigits[(b[1] % 16) + 1]>> \o HexEncode(Tail(b))

\* the string comparison s < t of Go: byte-wise lexicographic
RECURSIVE StrLess(_, _)
StrLess(s, t) ==
    IF t = <<>> THEN FALSE
    ELSE IF s = <<>> THEN TRUE
    ELSE IF s[1] # t[1] THEN s[1] < t[1]
    ELSE StrLess(Tail(s), Tail(t))

\* index of the first byte c among s[lo..hi], 0 when there is none
RECURSIVE IndexIn(_, _, _, _)
IndexIn(s, c, lo, hi) ==
    IF lo > hi THEN 0
    ELSE IF lo = hi THEN (IF s[lo] = c THEN lo ELSE 0)
    ELSE LET mid == (lo + hi) \div 2
             left == IndexIn(s, c, lo, mid)
         IN IF left # 0 THEN left ELSE IndexIn(s, c, mid + 1, hi)

\* bytes.IndexByte(s, c) + 1
IndexByte(s, c) == IndexIn(s, c, 1, Len(s))

\* bytes.Cut(s, sep) for a one-byte separator
Cut(s, sep) ==
    LET k == IndexByte(s, sep[1]) IN
    IF k = 0 THEN [before |-> s, after |-> <<>>, found |-> FALSE]
    ELSE [before |-> SubSeq(s, 1, k - 1), after |-> Drop(s, k), found |-> TRUE]

-----------------------------------------------------------------------------
(* The digest.  SHA-1 is modelled by a polynomial hash of fixed width:    *)
(* DigestLen raw bytes, 2 * DigestLen hex characters.                     *)

DigestLen == 3
HashMod == 16777213
HashMult == 127

BlockSize == 16

\* the bytes buf[i..last] folded into the state h, which stays below HashMod (the
\* comparison has h computed at every step, not carried as a pending chain)
RECURSIVE HashBlock(_, _, _, _)
HashBlock(buf, i, last, h) ==
    IF i > last \/ h >= HashMod THEN h
    ELSE HashBlock(buf, i + 1, last, (h * HashMult + buf[i] + 1) % HashMod)

\* hasher.Write(buf): block after block
RECURSIVE HashFold(_, _, _)
HashFold(buf, i, h) ==
    IF i > Len(buf) \/ h >= HashMod THEN h
    ELSE HashFold(buf, i + BlockSize,
                  HashBlock(buf, i, Min(i + BlockSize - 1, Len(buf)), h))

RECURSIVE BigEndian(_, _)
BigEndian(n, width) ==
    IF width = 0 THEN <<>> ELSE BigEndian(n \div 256, width - 1) \o <<n % 256>>

GetSha(buf) == BigEndian(HashFold(buf, 1, 7), DigestLen)

-----------------------------------------------------------------------------
(* zlib.  A stream is the two header bytes, one stored deflate block      *)
(* (final-block flag, length, data) and the checksum of the data.         *)

ZlibHeader == <<120, 156>>
AdlerMod == 65521

\* s[lo] + ... + s[hi]
RECURSIVE SumIn(_, _, _)
SumIn(s, lo, hi) ==
    IF lo > hi THEN 0
    ELSE IF lo = hi THEN s[lo]
    ELSE LET mid == (lo + hi) \div 2 IN SumIn(s, lo, mid) + SumIn(s, mid + 1, hi)

Adler(buf) == (1 + SumIn(buf, 1, Len(buf))) % AdlerMod

\* everything zlib.Writer hands to the file between NewWriter and Close
Compress(buf) == ZlibHeader \o <<1, Len(buf)>> \o buf \o <<Adler(buf)>>

\* zlib.NewReader: reads and checks the stream header
ZlibHeaderOk(file) == Len(file) >= 2 /\ SubSeq(file, 1, 2) = ZlibHeader

\* what reading the zlib reader to its end yields: the bytes it decodes, and
\* whether it ends in an error (truncated stream, bad checksum)
Inflate(file) ==
    LET rest == Drop(file, 2) IN
    IF Len(rest) < 2 THEN [data |-> <<>>, err |-> TRUE]
    ELSE LET n == rest[2]
             data == SubSeq(rest, 3, Min(2 + n, Len(rest)))
         IN IF Len(data) < n \/ Len(rest) < n + 3 THEN [data |-> data, err |-> TRUE]
            ELSE [data |-> data, err |-> rest[n + 3] # Adler(data)]

-----------------------------------------------------------------------------
(* The working directory.  A path is a sequence of names; a node is a     *)
(* regular file, a symbolic link, a directory or nothing.                 *)

NameB == <<66>>
NameA == <<97>>
NameC == <<99>>
NameNone == <<122, 122>>

Paths == {<<NameB>>, <<NameA>>, <<NameA, NameC>>}
RootNames == {NameB, NameA, DotGit}

Text == <<104, 105>>
Binary == <<0, 10>>
Perms == {420, 484, 493}
Targets == {NameB, DotGit, NameNone}
Clock == {1700000000}
Msgs == {<<109>>}
BogusId == <<48, 48, 48, 48, 48, 48>>

NoNode == [type |-> "none", perm |-> 0, content |-> <<>>, target |-> <<>>]
FileNode(c, p) == [type |-> "file", perm |-> p, content |-> c, target |-> <<>>]
LinkNode(t) == [type |-> "symlink", perm |-> 511, content |-> <<>>, target |-> t]
DirNode == [type |-> "dir", perm |-> 493, content |-> <<>>, target |-> <<>>]

\* B is a regular file; a is a directory holding the file c, or a symbolic link
NodesAt(p) ==
    IF p = <<NameB>> THEN {NoNode} \cup {FileNode(Text, q) : q \in Perms}
    ELSE IF p = <<NameA>> THEN {NoNode, DirNode} \cup {LinkNode(t) : t \in Targets}
    ELSE {NoNode, FileNode(Binary, 420)}

WellFormedTree(t) ==
    /\ \A p \in Paths : t[p] \in NodesAt(p)
    /\ t[<<NameA, NameC>>] # NoNode <=> t[<<NameA>>] = DirNode

Worktrees == {t \in [Paths -> UNION {NodesAt(p) : p \in Paths}] : WellFormedTree(t)}

\* lstat(p); .git is a directory
Lookup(t, p) == IF p \in Paths THEN t[p] ELSE IF p = <<DotGit>> THEN DirNode ELSE NoNode

\* the node os.Open reaches: a symbolic link is followed, relative to its directory
Resolve(t, p) ==
    LET n == Lookup(t, p) IN
    IF n.type = "symlink" THEN Lookup(t, SubSeq(p, 1, Len(p) - 1) \o <<n.target>>) ELSE n

\* os.ReadDir(dir): the names in dir, in the order enum gives the names of the root
ReadDir(t, git, dir, enum) ==
    LET present(n) == IF dir = <<>> /\ n = DotGit THEN git
                      ELSE Lookup(t, dir \o <<n>>).type # "none"
    IN SelectSeq(enum \o <<NameC>>, present)

-----------------------------------------------------------------------------
(* The object store. *)

\* ".git/objects/" + name[:2] + "/" + name[2:]
ObjectPath(name) == <<SubSeq(name, 1, 2), Drop(name, 2)>>

\* the hex ids that have an object file
Ids(objs) == {k[1] \o k[2] : k \in DOMAIN objs}

Exit1(objs) == [status |-> "exit1", hash |-> <<>>, payload |-> <<>>, log |-> <<>>, objs |-> objs]

\* os.OpenFile(O_RDWR|O_CREATE|O_APPEND): the new bytes follow the old ones
WriteObjectAppend(name, contents, objs) ==
    IF ObjectPath(name) \in DOMAIN objs
    THEN [objs EXCEPT ![ObjectPath(name)] = @ \o Compress(contents)]
    ELSE objs @@ (ObjectPath(name) :> Compress(contents))

\* WriteObject(name, contents): the store after the call.  O_CREATE|O_EXCL fails on
\* a file that exists, and the call returns having changed nothing
WriteObject(name, contents, objs) ==
    IF ObjectPath(name) \in DOMAIN objs THEN objs
    ELSE objs @@ (ObjectPath(name) :> Compress(contents))

\* WriteObject that treats os.ErrExist like every other error of os.OpenFile
PutAsFailExist(hash, buf, payload, objs) ==
    IF ObjectPath(HexEncode(hash)) \in DOMAIN objs THEN Exit1(objs)
    ELSE [status |-> "ok", hash |-> hash, payload |-> payload, log |-> <<HexEncode(hash)>>,
          objs |-> WriteObject(HexEncode(hash), buf, objs)]

\* WriteObject(hex.EncodeToString(hash), buf); return hash
PutAs(hash, buf, payload, objs) ==
    [status |-> "ok", hash |-> hash, payload |-> payload, log |-> <<HexEncode(hash)>>,
     objs |-> WriteObject(HexEncode(hash), buf, objs)]

\* hash := GetSha(buf), then the object is written under it
Put(buf, payload, objs) == PutAs(GetSha(buf), buf, payload, objs)

\* the calls of WriteObject a caller made before this one
After(log, r) == [r EXCEPT !.log = log \o @]

\* "blob " + objectSize + "\x00", then the content
BlobBuf(content) == StrBlob \o SPACE \o Itoa(Len(content)) \o NULL_SEP \o content

\* WriteBlob that computes the id and stores nothing
WriteBlobUnstored(t, path, objs) ==
    IF Resolve(t, path).type # "file" THEN Exit1(objs)
    ELSE [Put(BlobBuf(Resolve(t, path).content), Resolve(t, path).content, objs)
          EXCEPT !.objs = objs]

\* WriteBlob(filepath): os.Open fails on a missing file or a dangling link, io.Copy
\* fails on a directory; otherwise the blob is stored
WriteBlob(t, path, objs) ==
    IF Resolve(t, path).type # "file" THEN Exit1(objs)
    ELSE Put(BlobBuf(Resolve(t, path).content), Resolve(t, path).content, objs)

\* the mode WriteTree gives an entry
ModeOf(n) ==
    IF n.type = "symlink" THEN 120000
    ELSE IF n.perm % 2 # 0 /\ n.type # "dir" THEN 100755
    ELSE IF n.type = "dir" THEN 40000
    ELSE 100644

\* the first loop of WriteTree: one TreeFile per entry, .git skipped
RECURSIVE Lines(_, _, _)
Lines(t, dir, files) ==
    IF files = <<>> THEN <<>>
    ELSE IF Head(files) = DotGit THEN Lines(t, dir, Tail(files))
    ELSE <<[Name |-> Head(files), Mode |-> ModeOf(Lookup(t, dir \o <<Head(files)>>)),
            IsDir |-> Lookup(t, dir \o <<Head(files)>>).type = "dir"]>>
         \o Lines(t, dir, Tail(files))

RECURSIVE InsertLine(_, _)
InsertLine(line, sorted) ==
    IF sorted = <<>> THEN <<line>>
    ELSE IF StrLess(line.Name, Head(sorted).Name) THEN <<line>> \o sorted
    ELSE <<Head(sorted)>> \o InsertLine(line, Tail(sorted))

\* the entries left in the order of enumeration
Unsorted(lines) == lines

\* sort.Slice(lines, func(i, j int) bool { return lines[i].Name < lines[j].Name })
RECURSIVE SortLines(_)
SortLines(lines) ==
    IF lines = <<>> THEN <<>> ELSE InsertLine(Head(lines), SortLines(Tail(lines)))

\* the end of WriteTree: "tree <len>" NUL <body> is stored, unless an entry failed
TreeOf(w) ==
    IF w.status # "ok"
    THEN [status |-> w.status, hash |-> <<>>, payload |-> <<>>, log |-> w.log, objs |-> w.objs]
    ELSE After(w.log, Put(StrTree \o SPACE \o Itoa(Len(w.body)) \o NULL_SEP \o w.body,
                          w.body, w.objs))

RECURSIVE WriteTree(_, _, _, _, _)
RECURSIVE WriteLines(_, _, _, _, _, _)
RECURSIVE WriteLine(_, _, _, _, _, _, _)

\* the second loop of WriteTree, from the first of `lines` on; acc holds the body and
\* the log of the entries before it
WriteLines(t, git, dir, enum, lines, acc) ==
    IF lines = <<>> THEN acc
    ELSE WriteLine(t, git, dir, enum, lines, acc,
                   IF Head(lines).IsDir
                   THEN WriteTree(t, git, dir \o <<Head(lines).Name>>, enum, acc.objs)
                   ELSE WriteBlob(t, dir \o <<Head(lines).Name>>, acc.objs))

\* one turn of that loop, r being what storing the entry returned: a failure ends the
\* process, a digest is appended to the body after "<mode> <name>" NUL
WriteLine(t, git, dir, enum, lines, acc, r) ==
    IF r.status # "ok"
    THEN [status |-> r.status, body |-> acc.body, log |-> acc.log \o r.log, objs |-> r.objs]
    ELSE WriteLines(t, git, dir, enum, Tail(lines),
                    [status |-> "ok",
                     body |-> acc.body \o Itoa(Head(lines).Mode) \o SPACE
                              \o Head(lines).Name \o NULL_SEP \o r.hash,
                     log |-> acc.log \o r.log,
                     objs |-> r.objs])

\* WriteTree(dir): the tree of dir is stored after the objects of its entries
WriteTree(t, git, dir, enum, objs) ==
    TreeOf(WriteLines(t, git, dir, enum, SortLines(Lines(t, dir, ReadDir(t, git, dir, enum))),
                      [status |-> "ok", body |-> <<>>, log |-> <<>>, objs |-> objs]))

\* "author " or "committer " and the rest of the line
Ident(role, now) ==
    role \o SPACE \o author \o SPACE \o authorMail \o SPACE \o Itoa(now) \o SPACE
    \o timezoneOffset \o NEWLINE

\* the body of a commit
CommitBody(treeSHA, parentCommitSHA, msg, now) ==
    StrTree \o SPACE \o treeSHA \o NEWLINE
    \o StrParent \o SPACE \o parentCommitSHA \o NEWLINE
    \o Ident(StrAuthor, now) \o Ident(StrCommitter, now) \o NEWLINE
    \o msg \o NEWLINE

\* "commit <len>" NUL <body> is stored
PutCommit(body, objs) == Put(StrCommit \o SPACE \o Itoa(Len(body)) \o NULL_SEP \o body, body, objs)

\* CommitTree(treeSHA, parentCommitSHA, msg) at the clock reading now
CommitTree(treeSHA, parentCommitSHA, msg, now, objs) ==
    PutCommit(CommitBody(treeSHA, parentCommitSHA, msg, now), objs)

\* the file ".git/" + headFile[5:len(headFile)-1] names: the branch file, if HEAD
\* names it
HeadRef(hd, rf) ==
    IF hd # Absent /\ SubSeq(hd, 6, Len(hd) - 1) = RefHeadsMaster THEN rf ELSE Absent

Failed(w, status) == [w EXCEPT !.status = status, !.hash = <<>>, !.payload = <<>>]

\* Commit after its WriteTree(".") returned w: a missing HEAD exits; a missing or
\* empty branch file makes HEADsha[:len(HEADsha)-1] panic
CommitOn(w, hd, rf, msg, now) ==
    IF hd = Absent THEN Failed(w, "exit1")
    ELSE IF HeadRef(hd, rf) = Absent \/ HeadRef(hd, rf) = <<>> THEN Failed(w, "panic")
    ELSE After(w.log, CommitTree(HexEncode(w.hash),
                                 SubSeq(HeadRef(hd, rf), 1, Len(HeadRef(hd, rf)) - 1),
                                 msg, now, w.objs))

\* Commit(msg)
Commit(t, git, hd, rf, enum, msg, now, objs) ==
    CommitOn(WriteTree(t, git, <<>>, enum, objs), hd, rf, msg, now)

-----------------------------------------------------------------------------
(* Reading objects. *)

\* the bytes after the first byte sep of the decoded stream d, when there is one
AfterFirst(d, sep) ==
    IF IndexByte(d.data, sep) = 0 THEN [status |-> "exit1", out |-> <<>>]
    ELSE [status |-> "ok", out |-> Drop(d.data, IndexByte(d.data, sep))]

\* CatFile that copies everything after the first space
CatFileFromSpace(hashSum, objs) ==
    IF Len(hashSum) < 2 THEN [status |-> "panic", out |-> <<>>]
    ELSE IF ObjectPath(hashSum) \notin DOMAIN objs THEN [status |-> "exit1", out |-> <<>>]
    ELSE IF ~ZlibHeaderOk(objs[ObjectPath(hashSum)]) THEN [status |-> "panic", out |-> <<>>]
    ELSE AfterFirst(Inflate(objs[ObjectPath(hashSum)]), 32)

\* CatFile(hashSum, os.Stdout): a missing file exits; a bad zlib header leaves reader
\* nil and `defer reader.Close()` panics; bytes are skipped up to the first NUL, a
\* read error before it exits; the rest is copied and the error of io.Copy dropped
CatFile(hashSum, objs) ==
    IF Len(hashSum) < 2 THEN [status |-> "panic", out |-> <<>>]
    ELSE IF ObjectPath(hashSum) \notin DOMAIN objs THEN [status |-> "exit1", out |-> <<>>]
    ELSE IF ~ZlibHeaderOk(objs[ObjectPath(hashSum)]) THEN [status |-> "panic", out |-> <<>>]
    ELSE AfterFirst(Inflate(objs[ObjectPath(hashSum)]), 0)

\* the loop of LSTreeCmd: a name per record, body[20:] panics on a short record
RECURSIVE LSLoop(_, _)
LSLoop(body, out) ==
    IF body = <<>> THEN [status |-> "ok", out |-> out]
    ELSE IF Len(Cut(body, NULL_SEP).after) < DigestLen
    THEN [status |-> "panic",
          out |-> out \o Cut(Cut(body, NULL_SEP).before, SPACE).after \o NEWLINE]
    ELSE LSLoop(Drop(Cut(body, NULL_SEP).after, DigestLen),
                out \o Cut(Cut(body, NULL_SEP).before, SPACE).after \o NEWLINE)

\* LSTreeCmd: the error of io.ReadAll is dropped
LSTree(sha, objs) ==
    IF Len(sha) < 2 THEN [status |-> "panic", out |-> <<>>]
    ELSE IF ObjectPath(sha) \notin DOMAIN objs THEN [status |-> "exit1", out |-> <<>>]
    ELSE IF ~ZlibHeaderOk(objs[ObjectPath(sha)]) THEN [status |-> "exit1", out |-> <<>>]
    ELSE LSLoop(Cut(Inflate(objs[ObjectPath(sha)]).data, NULL_SEP).after, <<>>)

\* the records of a tree body, as LSTreeCmd splits them: "<mode> <name>" NUL <digest>
RECURSIVE Entries(_)
Entries(body) ==
    IF body = <<>> THEN <<>>
    ELSE <<[mode |-> Cut(Cut(body, NULL_SEP).before, SPACE).before,
            name |-> Cut(Cut(body, NULL_SEP).before, SPACE).after,
            id |-> SubSeq(Cut(body, NULL_SEP).after, 1, DigestLen)]>>
         \o Entries(Drop(Cut(body, NULL_SEP).after, DigestLen))

\* the kind an object file declares: the header up to the first space
KindOf(file) == Cut(Cut(Inflate(file).data, NULL_SEP).before, SPACE).before

IdsOfKind(objs, kind) == {k[1] \o k[2] : k \in {x \in DOMAIN objs : KindOf(objs[x]) = kind}}

-----------------------------------------------------------------------------
(* The commands, one process run each. *)

Quiet(cmd) ==
    [cmd |-> cmd, args |-> <<>>, enum |-> <<>>, status |-> "ok", out |-> <<>>,
     existed |-> FALSE, payload |-> <<>>, log |-> <<>>]

\* what a storing command leaves: the hex id on stdout when it succeeds
Stored(cmd, args, enum, r) ==
    [cmd |-> cmd, args |-> args, enum |-> enum, status |-> r.status,
     out |-> HexEncode(r.hash),
     existed |-> r.status = "ok" /\ ObjectPath(HexEncode(r.hash)) \in DOMAIN objects,
     payload |-> r.payload, log |-> r.log]

\* what a reading command leaves; existed and payload tell the object file it found
Read(cmd, id, r) ==
    [cmd |-> cmd, args |-> <<id>>, enum |-> <<>>, status |-> r.status, out |-> r.out,
     existed |-> Len(id) >= 2 /\ ObjectPath(id) \in DOMAIN objects,
     payload |-> IF Len(id) >= 2 /\ ObjectPath(id) \in DOMAIN objects
                 THEN objects[ObjectPath(id)] ELSE <<>>,
     log |-> <<>>]

\* the orders in which os.ReadDir may list the root: all of them
Enums == {e \in [1..Cardinality(RootNames) -> RootNames] :
            \A i, j \in DOMAIN e : i # j => e[i] # e[j]}

\* those that list the entries the root has in different orders
RootOrders == {ReadDir(wt, gitdir, <<>>, e) : e \in Enums}

StoringCmds == {"hash-object", "write-tree", "commit-tree", "commit"}

Sequential == UNCHANGED <<wpc, wbuf, wpos>>

\* a storing command ran and returned r
Store(cmd, args, enum, r) ==
    /\ objects' = r.objs
    /\ gitdir' = (gitdir \/ r.log # <<>>)
    /\ res' = Stored(cmd, args, enum, r)
    /\ committed' = IF cmd = "commit" /\ r.status = "ok"
                    THEN committed \cup {HexEncode(r.hash)} ELSE committed
    /\ UNCHANGED <<wt, head, ref>>
    /\ Sequential

\* the store holds no more commits than the model follows
Room(objs) == Cardinality(IdsOfKind(objs, StrCommit)) <= MaxCommits

InitCmd ==
    /\ gitdir' = TRUE
    /\ head' = headFileContents
    /\ res' = Quiet("init")
    /\ UNCHANGED <<wt, ref, objects, committed>>
    /\ Sequential

HashObjectCmd ==
    \E path \in Paths :
        Store("hash-object", <<path>>, <<>>, WriteBlob(wt, path, objects))

WriteTreeCmd ==
    \E enum \in RootOrders :
        Store("write-tree", <<>>, enum, WriteTree(wt, gitdir, <<>>, enum, objects))

\* the tree argument is the id write-tree has just printed; the parent argument is
\* empty or the id in the branch file
CommitTreeCmd ==
    \E treeSHA \in (IF res.cmd = "write-tree" /\ res.status = "ok" THEN {res.out} ELSE {}),
       parent \in {<<>>} \cup (IF ref = Absent THEN {} ELSE {SubSeq(ref, 1, Len(ref) - 1)}),
       msg \in Msgs, now \in Clock :
        /\ Store("commit-tree", <<treeSHA, parent, msg, now>>, <<>>,
                 CommitTree(treeSHA, parent, msg, now, objects))
        /\ Room(objects')

CommitCmd ==
    \E enum \in RootOrders, msg \in Msgs, now \in Clock :
        /\ Store("commit", <<msg, now>>, <<>>,
                 Commit(wt, gitdir, head, ref, enum, msg, now, objects))
        /\ Room(objects')

\* the id a reading command is given: the one the last command printed, or the id
\* of no object
ArgIds ==
    {BogusId} \cup (IF res.cmd \in StoringCmds /\ res.status = "ok" THEN {res.out} ELSE {})

Show(cmd, id, r) ==
    /\ res' = Read(cmd, id, r)
    /\ UNCHANGED <<wt, gitdir, head, ref, objects, committed>>
    /\ Sequential

CatFileCmd == \E id \in ArgIds : Show("cat-file", id, CatFile(id, objects))

LSTreeCmd == \E id \in ArgIds : Show("ls-tree", id, LSTree(id, objects))

\* the branch file written from outside: a commit id and a newline
SetRef ==
    \E id \in IdsOfKind(objects, StrCommit) :
        /\ gitdir
        /\ ref' = id \o NEWLINE
        /\ res' = Quiet("update-ref")
        /\ UNCHANGED <<wt, gitdir, head, objects, committed>>
        /\ Sequential

Init ==
    /\ wt \in Worktrees
    /\ gitdir = TRUE
    /\ head = headFileContents
    /\ ref = Absent
    /\ objects = <<>>
    /\ res = Quiet("none")
    /\ committed = {}
    /\ wpc = <<>>
    /\ wbuf = <<>>
    /\ wpos = <<>>

Next ==
    \/ InitCmd
    \/ HashObjectCmd
    \/ WriteTreeCmd
    \/ CommitTreeCmd
    \/ CommitCmd
    \/ CatFileCmd
    \/ LSTreeCmd
    \/ SetRef

Spec == Init /\ [][Next]_vars

-----------------------------------------------------------------------------
(* Two processes that run hash-object at the same time, and a third that   *)
(* runs cat-file.  A step is one system call on the object file.           *)

Writers == {1, 2}

\* the working directory the writers hash: the file B and the file a/c
SharedTree ==
    [p \in Paths |-> IF p = <<NameB>> THEN FileNode(Text, 420)
                     ELSE IF p = <<NameA>> THEN DirNode
                     ELSE FileNode(Binary, 420)]

\* the object file of writer w
FileOf(w) == ObjectPath(HexEncode(GetSha(wbuf[w])))

\* the length of the file after the next write: zlib.Writer writes the two header
\* bytes at once, the deflate writer flushes its buffer FlushSize bytes at a time,
\* and Close appends the checksum
NextPos(buf, pos) ==
    IF pos = 0 THEN Len(ZlibHeader)
    ELSE IF pos < Len(Compress(buf)) - 1 THEN Min(pos + FlushSize, Len(Compress(buf)) - 1)
    ELSE Len(Compress(buf))

Others == UNCHANGED <<wt, gitdir, head, ref, committed>>

\* WriteBlob up to the call of WriteObject, and os.MkdirAll in it
Begin(w) ==
    \E path \in {<<NameB>>, <<NameA, NameC>>} :
        /\ wpc[w] = "idle"
        /\ wbuf' = [wbuf EXCEPT ![w] = BlobBuf(Resolve(wt, path).content)]
        /\ wpc' = [wpc EXCEPT ![w] = "open"]
        /\ UNCHANGED <<objects, res, wpos>>
        /\ Others

\* os.OpenFile(O_RDWR|O_CREATE|O_EXCL): the file exists and WriteObject returns, or it
\* is created empty
Open(w) ==
    /\ wpc[w] = "open"
    /\ IF FileOf(w) \in DOMAIN objects
       THEN /\ wpc' = [wpc EXCEPT ![w] = "done"]
            /\ UNCHANGED <<objects, wpos>>
       ELSE /\ objects' = objects @@ (FileOf(w) :> <<>>)
            /\ wpos' = [wpos EXCEPT ![w] = 0]
            /\ wpc' = [wpc EXCEPT ![w] = "write"]
    /\ UNCHANGED <<wbuf, res>>
    /\ Others

\* io.Copy(writer, contents) and the deferred writer.Close(): one write at a time
WriteStep(w) ==
    /\ wpc[w] = "write"
    /\ wpos' = [wpos EXCEPT ![w] = NextPos(wbuf[w], @)]
    /\ objects' = [objects EXCEPT ![FileOf(w)] = SubSeq(Compress(wbuf[w]), 1, wpos'[w])]
    /\ wpc' = [wpc EXCEPT ![w] = IF wpos'[w] = Len(Compress(wbuf[w])) THEN "done" ELSE "write"]
    /\ UNCHANGED <<wbuf, res>>
    /\ Others

\* hash-object has printed the id; the process ends and another may start
Finish(w) ==
    /\ wpc[w] = "done"
    /\ wpc' = [wpc EXCEPT ![w] = "idle"]
    /\ wbuf' = [wbuf EXCEPT ![w] = <<>>]
    /\ UNCHANGED <<objects, res, wpos>>
    /\ Others

\* cat-file run by a third process
Reader ==
    \E id \in Ids(objects) \cup {BogusId} :
        /\ res' = Read("cat-file", id, CatFile(id, objects))
        /\ UNCHANGED <<objects, wpc, wbuf, wpos>>
        /\ Others

InitConc ==
    /\ wt = SharedTree
    /\ gitdir = TRUE
    /\ head = headFileContents
    /\ ref = Absent
    /\ objects = <<>>
    /\ res = Quiet("none")
    /\ committed = {}
    /\ wpc = [w \in Writers |-> "idle"]
    /\ wbuf = [w \in Writers |-> <<>>]
    /\ wpos = [w \in Writers |-> 0]

NextConc ==
    \/ \E w \in Writers : Begin(w)
    \/ \E w \in Writers : Open(w)
    \/ \E w \in Writers : WriteStep(w)
    \/ \E w \in Writers : Finish(w)
    \/ Reader

SpecConc == InitConc /\ [][NextConc]_vars

-----------------------------------------------------------------------------
(* Properties of the object store. *)

Range(s) == {s[i] : i \in DOMAIN s}

\* C1: a storing command run again with the same arguments, on the same working
\* directory and branch, succeeds again, prints the same id and leaves the object
\* directory as the first run left it
IdempotentStore ==
    [][(/\ res.cmd \in StoringCmds
        /\ res.status = "ok"
        /\ res'.cmd = res.cmd
        /\ res'.args = res.args)
       => (/\ res'.status = "ok"
           /\ res'.out = res.out
           /\ objects' = objects)]_vars

\* a storing command has succeeded on an object that was in the store already
StoredTwice ==
    /\ res.cmd \in StoringCmds
    /\ res.status = "ok"
    /\ res.existed
    /\ objects[ObjectPath(res.out)] = Compress(Cut(Inflate(objects[ObjectPath(res.out)]).data,
                                                   NULL_SEP).before
                                               \o NULL_SEP \o res.payload)

\* the kind a storing command gives the object it prints
KindStored(cmd) ==
    IF cmd = "hash-object" THEN StrBlob ELSE IF cmd = "write-tree" THEN StrTree ELSE StrCommit

\* C2: after a storing command has printed an id, cat-file of that id succeeds and
\* prints exactly the payload stored, and the object decodes to
\* "<kind> <length of the payload>" NUL <payload>
RoundTrip ==
    (res.cmd \in StoringCmds /\ res.status = "ok") =>
        /\ CatFile(res.out, objects) = [status |-> "ok", out |-> res.payload]
        /\ ObjectPath(res.out) \in DOMAIN objects
        /\ Inflate(objects[ObjectPath(res.out)]) =
               [data |-> KindStored(res.cmd) \o SPACE \o Itoa(Len(res.payload)) \o NULL_SEP
                         \o res.payload,
                err |-> FALSE]

\* a blob whose content holds a NUL byte has been stored and reads back whole
RoundTripThroughNul ==
    /\ res.cmd = "hash-object"
    /\ res.status = "ok"
    /\ IndexByte(res.payload, 0) > 0
    /\ CatFile(res.out, objects).out = res.payload

\* C3: an object file that exists is in the store after every step, with the bytes
\* it had
Immutable ==
    [][\A k \in DOMAIN objects : k \in DOMAIN objects' /\ objects'[k] = objects[k]]_vars

\* a storing command has written objects into a store that held another object
WroteBesideOlder ==
    /\ res.cmd \in StoringCmds
    /\ res.log # <<>>
    /\ ~res.existed
    /\ \E id \in Ids(objects) : id \notin Range(res.log)

\* the names of the entries of a tree body, in their order
Names(body) == [i \in DOMAIN Entries(body) |-> Entries(body)[i].name]

Ascending(names) == \A i \in DOMAIN names : i > 1 => StrLess(names[i - 1], names[i])

\* the payload of a stored object
PayloadOf(id, objs) == CatFile(id, objs).out

\* C5: every tree in the store lists its entries by strictly ascending name and has
\* no entry .git, and the id write-tree prints is the one it prints for every order
\* in which the directory may be enumerated
SortInvariant ==
    /\ \A id \in IdsOfKind(objects, StrTree) :
          /\ Ascending(Names(PayloadOf(id, objects)))
          /\ DotGit \notin Range(Names(PayloadOf(id, objects)))
    /\ (res.cmd = "write-tree" /\ res.status = "ok") =>
          \A e \in RootOrders :
              HexEncode(WriteTree(wt, gitdir, <<>>, e, objects).hash) = res.out

\* write-tree has stored a tree of two entries or more from an enumeration that did
\* not come in ascending order
SortedFromUnsorted ==
    /\ res.cmd = "write-tree"
    /\ res.status = "ok"
    /\ Len(Entries(res.payload)) >= 2
    /\ ~Ascending(res.enum)

\* the ids a tree body refers to
Children(body) == {HexEncode(Entries(body)[i].id) : i \in DOMAIN Entries(body)}

\* the tree id a commit body names in its first line
TreeOfCommit(body) == Cut(Cut(body, NEWLINE).before, SPACE).after

\* the calls of WriteObject a command made before its i-th
Earlier(log, i) == {log[j] : j \in 1..(i - 1)}

\* C10: every tree in the store refers to objects in the store, every commit that
\* commit stored names a tree in the store, and within a command, also one that
\* failed part-way, each tree and commit was written after the objects it refers to
BottomUp ==
    /\ \A id \in IdsOfKind(objects, StrTree) : Children(PayloadOf(id, objects)) \subseteq Ids(objects)
    /\ \A id \in committed :
          /\ id \in Ids(objects)
          /\ TreeOfCommit(PayloadOf(id, objects)) \in IdsOfKind(objects, StrTree)
    /\ (res.cmd \in {"write-tree", "commit"}) =>
          \A i \in DOMAIN res.log :
              /\ res.log[i] \in Ids(objects)
              /\ res.log[i] \in IdsOfKind(objects, StrTree) =>
                     Children(PayloadOf(res.log[i], objects)) \subseteq Earlier(res.log, i)
              /\ res.log[i] \in IdsOfKind(objects, StrCommit) =>
                     TreeOfCommit(PayloadOf(res.log[i], objects)) \in Earlier(res.log, i)

\* a run of write-tree or commit has stopped on an error after it had stored objects
AbortedPartWay ==
    /\ res.cmd \in {"write-tree", "commit"}
    /\ res.status # "ok"
    /\ res.log # <<>>
    /\ \E id \in IdsOfKind(objects, StrTree) : Children(PayloadOf(id, objects)) # {}

\* the commit id in the branch file HEAD names, none when the file is not there
ParentInRef == IF HeadRef(head, ref) = Absent THEN <<>> ELSE SubSeq(ref, 1, Len(ref) - 1)

\* C6: commit, also the first one, stores the tree of the working directory and a
\* commit with that tree and the commit in the branch file as parent, and prints the
\* id of that commit
CommitStoresCommit ==
    res.cmd = "commit" =>
        /\ res.status = "ok"
        /\ res.out \in IdsOfKind(objects, StrCommit)
        /\ \E e \in RootOrders :
              res.payload = CommitBody(HexEncode(WriteTree(wt, gitdir, <<>>, e, objects).hash),
                                       ParentInRef, res.args[1], res.args[2])

\* C7: write-tree on a directory holding a symbolic link succeeds, and the entry of
\* the link has the mode 120000 and the id of a blob whose payload is the path the link
\* holds
SymlinkBlobIsTarget ==
    (res.cmd = "write-tree" /\ \E n \in RootNames : Lookup(wt, <<n>>).type = "symlink") =>
        /\ res.status = "ok"
        /\ \E i \in DOMAIN Entries(res.payload) :
              Lookup(wt, <<Entries(res.payload)[i].name>>).type = "symlink"
        /\ \A i \in DOMAIN Entries(res.payload) :
              Lookup(wt, <<Entries(res.payload)[i].name>>).type = "symlink" =>
                  /\ Entries(res.payload)[i].mode = Itoa(120000)
                  /\ CatFile(HexEncode(Entries(res.payload)[i].id), objects) =
                         [status |-> "ok",
                          out |-> Lookup(wt, <<Entries(res.payload)[i].name>>).target]

\* one of the three execute bits of a permission word is set
AnyExecute(perm) == perm % 2 = 1 \/ (perm \div 8) % 2 = 1 \/ (perm \div 64) % 2 = 1

\* C8: the entry of a regular file has the mode 100755 when one of its execute bits
\* is set, and 100644 when none is
ExecutableIffAnyExecuteBit ==
    (res.cmd = "write-tree" /\ res.status = "ok") =>
        \A i \in DOMAIN Entries(res.payload) :
            Lookup(wt, <<Entries(res.payload)[i].name>>).type = "file" =>
                Entries(res.payload)[i].mode =
                    Itoa(IF AnyExecute(Lookup(wt, <<Entries(res.payload)[i].name>>).perm)
                         THEN 100755 ELSE 100644)

-----------------------------------------------------------------------------
(* Properties of the store under concurrent use. *)

\* C4: once hash-object has returned in a process, the object file holds the whole
\* compressed encoding and cat-file of the id prints the whole payload; and when no
\* process is writing, every object file is whole
WritersNeverExposePartial ==
    /\ \A w \in Writers : wpc[w] = "done" =>
          /\ FileOf(w) \in DOMAIN objects
          /\ objects[FileOf(w)] = Compress(wbuf[w])
          /\ CatFile(HexEncode(GetSha(wbuf[w])), objects) =
                 [status |-> "ok", out |-> Drop(wbuf[w], IndexByte(wbuf[w], 0))]
    /\ (\A w \in Writers : wpc[w] \in {"idle", "done"}) =>
          \A k \in DOMAIN objects : ~Inflate(objects[k]).err

IsDecimal(str) == str # <<>> /\ \A i \in DOMAIN str : str[i] \in 48..57

\* the decoded bytes have a header "<kind> <decimal>" and a NUL after it
WellFormed(data) ==
    /\ IndexByte(data, 0) > 0
    /\ Cut(Cut(data, NULL_SEP).before, SPACE).found
    /\ Cut(Cut(data, NULL_SEP).before, SPACE).before \in {StrBlob, StrTree, StrCommit}
    /\ IsDecimal(Cut(Cut(data, NULL_SEP).before, SPACE).after)

\* C9: cat-file of an id without object file exits with an error; cat-file of an
\* object file that does not decompress, or whose header is malformed, fails and
\* prints nothing
CatFileRejectsBadObjects ==
    res.cmd = "cat-file" =>
        /\ ~res.existed => (res.status = "exit1" /\ res.out = <<>>)
        /\ (/\ res.existed
            /\ \/ ~ZlibHeaderOk(res.payload)
               \/ Inflate(res.payload).err
               \/ ~WellFormed(Inflate(res.payload).data))
           => (res.status # "ok" /\ res.out = <<>>)

====
